---- MODULE Spec2Model ----
(***************************************************************************)
(* StudyVerseAI: the flashcard spaced-repetition scheduler                 *)
(* (models/Flashcard.js, updateReviewData), the flashcard routes that      *)
(* drive it (routes/flashcards.js: generate, custom, list, due list,       *)
(* review, PATCH, soft delete) and the flashcard part of the dashboard's   *)
(* analytics (routes/dashboard.js); the study plan's mark-topic route      *)
(* (routes/dashboard.js) and the quiz attempts (routes/quiz.js: start,     *)
(* answer, complete).                                                      *)
(*                                                                         *)
(* Specifications.  Spec: the owner's accepted reviews of one card.        *)
(* SpecStore: any review or delete request.  SpecEdit: reviews, PATCH and  *)
(* delete.  SpecConc: overlapping review requests, each split at its       *)
(* awaits.  SpecDeck: a growing collection with its lists and analytics.   *)
(* SpecDue: reviews and due queries over the days.  SpecGen: overlapping   *)
(* generation requests.  SpecPlan: mark-topic requests over the days.      *)
(* SpecQuiz: the attempts of a quiz.                                       *)
(*                                                                         *)
(* Numbers.  easeFactor is an IEEE-754 double in the program.  A double x  *)
(* is kept here as a record [h, r] that stands for the rational            *)
(*        x = (h * 2^60 + r) / (100 * 2^60)                                *)
(* h is the value in hundredths as decimal arithmetic would give it, r is  *)
(* the distance of the double from h/100 in units of 2^-60 / 100.  Every   *)
(* arithmetic operation computes the exact result and rounds it to the     *)
(* nearest double, ties to even, as the hardware does (Round).             *)
(*                                                                         *)
(* Dates.  A Date is a count of milliseconds in the program.  It is kept   *)
(* here in mixed radix as [day, ms], standing for day * 86400000 + ms,     *)
(* with ms < 86400000.                                                     *)
(***************************************************************************)
EXTENDS Integers, Sequences, FiniteSets, TLC

\* ------------------------------------------------------------------ bounds

\* the number of accepted reviews a behaviour of Spec adds to its start
MaxReviews == 3
\* the number of accepted reviews in a behaviour of SpecStore
MaxStoreReviews == 1
\* the clock runs over the milliseconds 0..MaxMs of day 0
MaxMs == 1
\* the accepted reviews of a behaviour of SpecEdit
MaxEditReviews == 2
\* the review requests of a behaviour of SpecConc
MaxConcReviews == 3
\* the cards created one by one, and the cards reviewed, in a behaviour of
\* SpecDeck
MaxCustom == 1
MaxDeckReviews == 1
\* the days that pass, and the accepted reviews, in a behaviour of SpecDue
MaxDay == 2
MaxDueReviews == 2
\* the tasks marked in a behaviour of SpecPlan
MaxMarks == 3
\* the attempts started, and the answers stored in one attempt, in a
\* behaviour of SpecQuiz
MaxAttempts == 1
MaxAnswers == 3
\* the generation requests waiting and the cards inserted in a behaviour of
\* SpecGen
MaxGenerations == 4

\* ------------------------------------------------------------ IEEE doubles

Dbl(h, r) == [h |-> h, r |-> r]

RECURSIVE Pow2Of(_)
Pow2Of(n) == IF n = 0 THEN 1 ELSE 2 * Pow2Of(n - 1)
Pow2s == [n \in 0..24 |-> Pow2Of(n)]
Pow2(n) == Pow2s[n]

\* 2^n mod 100
RECURSIVE Pow2Mod100Of(_)
Pow2Mod100Of(n) == IF n = 0 THEN 1 ELSE (2 * Pow2Mod100Of(n - 1)) % 100
Pow2sMod100 == [n \in 0..60 |-> Pow2Mod100Of(n)]
Pow2Mod100(n) == Pow2sMod100[n]

\* x >= 2^e, for -6 <= e   (100 * 2^e = 25 * 2^(e+6) / 16 hundredths)
AtLeastPow2(x, e) ==
    LET T == 25 * Pow2(e + 6)
    IN  16 * x.h > T \/ (16 * x.h = T /\ x.r >= 0)

\* the exponent e of a positive x: 2^e <= x < 2^(e+1)
Binade(x) == CHOOSE e \in -6..4 : AtLeastPow2(x, e) /\ ~AtLeastPow2(x, e + 1)

\* The spacing of the doubles in the binade e is 2^(e-52), that is G = 100 * 2^(e+8)
\* units of r.  RoundPos rounds a positive exact value to the nearest multiple
\* of the spacing, a tie going to the even multiple.
RoundPos(x) ==
    LET k   == Binade(x) + 8
        G   == 100 * Pow2(k)
        c   == Pow2(k + 1) * Pow2Mod100(60 - (k + 1))    \* 2^60 mod 2G
        m   == (x.h * c + x.r) % (2 * G)
        rem == m % G
        odd == m >= G
    IN  IF 2 * rem < G THEN Dbl(x.h, x.r - rem)
        ELSE IF 2 * rem > G THEN Dbl(x.h, x.r + G - rem)
        ELSE IF odd THEN Dbl(x.h, x.r + G - rem)
        ELSE Dbl(x.h, x.r - rem)

\* round to nearest double, ties to even.  A value with h = 0 is a difference
\* of two nearby doubles, which is a double (no rounding).
Round(x) ==
    IF x.h = 0 THEN x
    ELSE IF x.h < 0 THEN LET p == RoundPos(Dbl(-x.h, -x.r)) IN Dbl(-p.h, -p.r)
    ELSE RoundPos(x)

\* a decimal literal of the source, in hundredths: 0.1 is Lit(10)
Lit(h) == Round(Dbl(h, 0))
\* the literals 1.3 and 2.5
MinEase == Lit(130)
DefaultEase == Lit(250)

DAdd(x, y) == Round(Dbl(x.h + y.h, x.r + y.r))
DSub(x, y) == Round(Dbl(x.h - y.h, x.r - y.r))
\* the product of an integer-valued double n and a double x
DMulInt(n, x) == Round(Dbl(n * x.h, n * x.r))
DLess(x, y) == x.h < y.h \/ (x.h = y.h /\ x.r < y.r)

\* the e with 2^e <= k < 2^(e+1), for k >= 1
RECURSIVE FloorLog2(_)
FloorLog2(k) == IF k <= 1 THEN 0 ELSE 1 + FloorLog2(k \div 2)

\* Math.round(n * x) for an integer n >= 1 and a double x >= 1: the product is
\* rounded to a double first, then to the nearest integer, a half going up.
\* Away from a half (n * x.h % 100 # 50) the double's error cannot change the
\* answer.  At a nominal half k + 0.5 the product's double is >= k + 0.5 exactly
\* when the exact product is no further below it than half the spacing of the
\* doubles there, 2^(FloorLog2(k) - 52).
MathRoundMul(n, x) ==
    LET T == n * x.h
        E == n * x.r
        k == T \div 100
    IN  IF T % 100 # 50 THEN (T + 50) \div 100
        ELSE IF E >= -(50 * Pow2(FloorLog2(k) + 8)) THEN k + 1
        ELSE k

\* ------------------------------------------------------------------- dates

Date(d, m) == [day |-> d, ms |-> m]
\* a Date field that is not set
NoDate == Date(-1, 0)
\* date + n * 24 * 60 * 60 * 1000
AddDays(date, n) == Date(date.day + n, date.ms)
DateLeq(a, b) == a.day < b.day \/ (a.day = b.day /\ a.ms <= b.ms)
\* a - b in milliseconds
DateDiff(a, b) == (a.day - b.day) * 24 * 60 * 60 * 1000 + (a.ms - b.ms)

\* ---------------------------------------------------------------- requests

\* an optional field of a request body: <<>> when absent, <<v>> when present
Absent == <<>>
Some(v) == <<v>>
Val(o) == o[1]

CardIds == {"c1"}
\* Ids are ObjectIds in the program, sent as strings of 24 hexadecimal digits;
\* "c1", "s1", ... stand for such strings.  A request can also carry a string
\* that is no ObjectId, which Mongoose refuses to cast when it builds a query.
MalformedIds == {"bad", "due"}
Castable(id) == id \notin MalformedIds
\* the ids a request can name: the stored cards, one id no card has, and one
\* string that is no id
RequestIds == CardIds \cup {"c0", "bad"}
Owner == "u1"
Users == {"u1", "u2"}
\* the Subject collection (active subjects): id -> document
subjects == [ s1 |-> [user |-> "u1"], s2 |-> [user |-> "u1"], s3 |-> [user |-> "u2"] ]

\* quality as a client can send it: absent, or an integer around 0..5
QualityInputs == {Absent} \cup {Some(q) : q \in -1..6}
\* the qualities the review route lets through
Qualities == 0..5
\* responseTime in seconds as a client can send it
ResponseTimeInputs == {Absent, Some(0), Some(4)}

\* -------------------------------------------------------------------- state

VARIABLES
    cards,      \* the Flashcard collection: id -> document
    clock,      \* the system clock, a Date
    history,    \* id -> the qualities of the accepted reviews of the card, in order
    start,      \* the history the behaviour found the cards with
    last,       \* the last request handled: what it was, what it answered, and
                \* the collection as it was stored before the request
    inflight,   \* the requests that have loaded their documents and not yet
                \* written theirs
    users,      \* the User collection: id -> document
    studyPlans, \* the StudyPlan collection: id -> document
    quizzes     \* the Quiz collection: id -> document

vars == <<cards, clock, history, start, last, inflight, users, studyPlans, quizzes>>

\* the collections the flashcard routes leave alone
others == <<users, studyPlans, quizzes>>

\* the accepted reviews of card id in this behaviour
Reviewed(id) == Len(history[id]) - Len(start)

\* a rational number num/den in lowest terms (stats.averageResponseTime)
RECURSIVE Gcd(_, _)
Gcd(a, b) == IF b = 0 THEN a ELSE Gcd(b, a % b)
Rat(n, d) == LET g == Gcd(n, d) IN [num |-> n \div g, den |-> d \div g]

\* new Flashcard({user, subject, question, ...}) saved at time `now`: the
\* schema's defaults
NewFlashcard(user, subject, now) ==
    [ user       |-> user,
      subject    |-> subject,
      question   |-> "question",
      answer     |-> "answer",
      topic      |-> "topic",
      difficulty |-> "medium",
      tags       |-> <<>>,
      aiGenerated |-> FALSE,
      isActive   |-> TRUE,
      createdAt  |-> now,
      stats    |-> [ timesReviewed       |-> 0,
                     correctAnswers      |-> 0,
                     incorrectAnswers    |-> 0,
                     lastReviewed        |-> NoDate,
                     averageResponseTime |-> Rat(0, 1) ],
      reviewData |-> [ interval    |-> 1,
                       easeFactor  |-> DefaultEase,
                       nextReview  |-> now,
                       reviewCount |-> 0 ] ]

\* ------------------------------------------------- Flashcard.updateReviewData

\* 0.1 - (5 - quality) * (0.08 + (5 - quality) * 0.02)
EaseDeltaOf(quality) ==
    DSub(Lit(10), DMulInt(5 - quality, DAdd(Lit(8), DMulInt(5 - quality, Lit(2)))))
\* ... tabulated for the qualities the route lets through
EaseDeltas == [q \in Qualities |-> EaseDeltaOf(q)]
\* mutant of EaseDelta: the quality taken one too low
EaseDeltaOffByOne(quality) == EaseDeltaOf(quality - 1)
EaseDelta(quality) == EaseDeltas[quality]

\* mutants of NextInterval: the first or the second step of a streak forgotten
NextIntervalNoFirst(reviewCount, interval, easeFactor) ==
    IF reviewCount = 2 THEN 6 ELSE MathRoundMul(interval, easeFactor)
NextIntervalNoSecond(reviewCount, interval, easeFactor) ==
    IF reviewCount = 1 THEN 1 ELSE MathRoundMul(interval, easeFactor)

\* the interval of a successful review; reviewCount is the incremented counter,
\* interval and easeFactor are the stored ones
NextInterval(reviewCount, interval, easeFactor) ==
    IF reviewCount = 1 THEN 1
    ELSE IF reviewCount = 2 THEN 6
    ELSE MathRoundMul(interval, easeFactor)

\* mutant of ClampEase: no floor
ClampEaseOff(easeFactor) == easeFactor

\* if (easeFactor < 1.3) easeFactor = 1.3
ClampEase(easeFactor) ==
    IF DLess(easeFactor, MinEase) THEN MinEase ELSE easeFactor

\* reviewCount += 1
IncReviewCount(reviewCount) == reviewCount + 1

\* mutant of SuccessBranch: the ease factor is updated before the interval
SuccessBranchEaseFirst(card, quality, rc) ==
    LET ef == DAdd(card.reviewData.easeFactor, EaseDelta(quality))
    IN  [ correctAnswers   |-> card.stats.correctAnswers + 1,
          incorrectAnswers |-> card.stats.incorrectAnswers,
          reviewCount      |-> rc,
          interval         |-> NextInterval(rc, card.reviewData.interval, ef),
          easeFactor       |-> ef ]

\* the success branch (quality >= 3): the counters, the interval and the ease
\* factor after it; rc is the incremented reviewCount
SuccessBranch(card, quality, rc) ==
    [ correctAnswers   |-> card.stats.correctAnswers + 1,
      incorrectAnswers |-> card.stats.incorrectAnswers,
      reviewCount      |-> rc,
      interval         |-> NextInterval(rc, card.reviewData.interval,
                                        card.reviewData.easeFactor),
      easeFactor       |-> DAdd(card.reviewData.easeFactor, EaseDelta(quality)) ]

\* mutants of FailureBranch: incorrectAnswers not counted; the interval reset
\* to 0; the interval not reset; the streak counter not reset
FailureBranchNoCount(card) ==
    [ correctAnswers   |-> card.stats.correctAnswers,
      incorrectAnswers |-> card.stats.incorrectAnswers,
      reviewCount      |-> 0,
      interval         |-> 1,
      easeFactor       |-> card.reviewData.easeFactor ]
FailureBranchZero(card) ==
    [ correctAnswers   |-> card.stats.correctAnswers,
      incorrectAnswers |-> card.stats.incorrectAnswers + 1,
      reviewCount      |-> 0,
      interval         |-> 0,
      easeFactor       |-> card.reviewData.easeFactor ]
FailureBranchKeepInterval(card) ==
    [ correctAnswers   |-> card.stats.correctAnswers,
      incorrectAnswers |-> card.stats.incorrectAnswers + 1,
      reviewCount      |-> 0,
      interval         |-> card.reviewData.interval,
      easeFactor       |-> card.reviewData.easeFactor ]
FailureBranchKeepCount(card) ==
    [ correctAnswers   |-> card.stats.correctAnswers,
      incorrectAnswers |-> card.stats.incorrectAnswers + 1,
      reviewCount      |-> card.reviewData.reviewCount + 1,
      interval         |-> 1,
      easeFactor       |-> card.reviewData.easeFactor ]

\* the failure branch (quality < 3)
FailureBranch(card) ==
    [ correctAnswers   |-> card.stats.correctAnswers,
      incorrectAnswers |-> card.stats.incorrectAnswers + 1,
      reviewCount      |-> 0,
      interval         |-> 1,
      easeFactor       |-> card.reviewData.easeFactor ]

QualityBranch(card, quality, rc) ==
    IF quality >= 3 THEN SuccessBranch(card, quality, rc) ELSE FailureBranch(card)

\* mutant of successRate: the percentage truncated
successRateFloor(card) ==
    IF card.stats.timesReviewed = 0 THEN 0
    ELSE (100 * card.stats.correctAnswers) \div card.stats.timesReviewed

\* the virtual successRate: Math.round((correctAnswers / timesReviewed) * 100).
\* The quotient and the product are doubles in the program.  Their rounding
\* errors can change the result only where 100 * correctAnswers / timesReviewed
\* is exactly a half; for timesReviewed < 40 that happens only with
\* timesReviewed = 8, where both are exact, so that the result is the exact
\* quotient rounded, a half going up (the first difference is 23 / 40, which
\* the program rounds to 57).
successRate(card) ==
    IF card.stats.timesReviewed = 0 THEN 0
    ELSE (200 * card.stats.correctAnswers + card.stats.timesReviewed)
            \div (2 * card.stats.timesReviewed)

\* new Date(Date.now() + interval * 24 * 60 * 60 * 1000)
NextReviewDate(now, interval) == AddDays(now, interval)

\* updateReviewData(quality) on the document `card`; t1 is the clock read by
\* `new Date()` at its start, t2 the clock read by `Date.now()` at its end
updateReviewData(card, quality, t1, t2) ==
    LET b == QualityBranch(card, quality, IncReviewCount(card.reviewData.reviewCount))
    IN  [ card EXCEPT
            !.stats = [ timesReviewed       |-> @.timesReviewed + 1,
                        correctAnswers      |-> b.correctAnswers,
                        incorrectAnswers    |-> b.incorrectAnswers,
                        lastReviewed        |-> t1,
                        averageResponseTime |-> @.averageResponseTime ],
            !.reviewData = [ interval    |-> b.interval,
                             easeFactor  |-> ClampEase(b.easeFactor),
                             nextReview  |-> NextReviewDate(t2, b.interval),
                             reviewCount |-> b.reviewCount ] ]

\* ------------------------------------------------------------------ routes

\* mutant of QualityInvalid: the lower bound forgotten
QualityInvalidNoLower(quality) ==
    quality = Absent \/ Val(quality) > 5

\* quality === undefined || quality < 0 || quality > 5
QualityInvalid(quality) ==
    quality = Absent \/ Val(quality) < 0 \/ Val(quality) > 5

\* Flashcard.findOne({_id: id, user: user, isActive: true}): the ids found
\* (at most one)
findOne(id, user) ==
    {c \in DOMAIN cards : c = id /\ cards[c].user = user /\ cards[c].isActive}

\* if (responseTime) { averageResponseTime = (avg * timesReviewed + responseTime)
\*                                           / (timesReviewed + 1) }
\* computed on rationals; absent and 0 are both falsy
UpdateResponseTime(card, responseTime) ==
    IF responseTime = Absent \/ Val(responseTime) = 0 THEN card
    ELSE LET avg == card.stats.averageResponseTime
             n   == card.stats.timesReviewed
         IN  [ card EXCEPT !.stats.averageResponseTime =
                   Rat(avg.num * n + Val(responseTime) * avg.den, avg.den * (n + 1)) ]

\* what a handled request leaves in `last`; loaded tells whether the handler
\* got as far as its findOne
Answer(op, status, loaded, id, quality, t1, t2) ==
    [ op |-> op, status |-> status, loaded |-> loaded, id |-> id,
      quality |-> quality, responseTime |-> Absent, before |-> cards,
      t1 |-> t1, t2 |-> t2,
      \* of the other requests: the caller, the handler that answered, the
      \* fields of the body, the path, the limit asked for, the cards listed
      \* and the average reported
      user |-> "", handler |-> "", fields |-> {}, path |-> <<>>,
      limit |-> Absent, list |-> <<>>, average |-> 0,
      \* of the dashboard: the number of due cards reported
      dueFlashcards |-> 0,
      \* of a mark-topic or quiz request: the collections it works on as
      \* they were stored before the request
      usersBefore |-> <<>>, plansBefore |-> <<>>, quizzesBefore |-> <<>>,
      \* of a mark-topic request: the study plan asked for; of a quiz request:
      \* the quiz and the attempt asked for, the question and the answer given
      plan |-> Absent, quiz |-> "", attempt |-> Absent,
      questionIndex |-> Absent, selectedAnswer |-> Absent,
      \* of an accepted review: the document its findOne returned
      doc |-> <<>> ]

\* the clock values a second read within one handler can see
LaterReads ==
    {clock} \cup (IF clock.ms < MaxMs THEN {Date(clock.day, clock.ms + 1)} ELSE {})
\* the same, after a read that returned t
ReadsFrom(t) ==
    {t} \cup (IF t.ms < MaxMs THEN {Date(t.day, t.ms + 1)} ELSE {})

\* POST /card/:id/review
Review(id, user, quality, responseTime) ==
    IF QualityInvalid(quality)
    THEN /\ last' = [ Answer("review", 400, FALSE, id, quality, NoDate, NoDate)
                         EXCEPT !.user = user ]
         /\ UNCHANGED <<cards, clock, history, start, inflight, others>>
    ELSE IF ~Castable(id)
    THEN /\ last' = [ Answer("review", 500, TRUE, id, quality, NoDate, NoDate)
                         EXCEPT !.user = user ]
         /\ UNCHANGED <<cards, clock, history, start, inflight, others>>
    ELSE IF findOne(id, user) = {}
    THEN /\ last' = [ Answer("review", 404, TRUE, id, quality, NoDate, NoDate)
                         EXCEPT !.user = user ]
         /\ UNCHANGED <<cards, clock, history, start, inflight, others>>
    ELSE \E t2 \in LaterReads :
         /\ cards' = [cards EXCEPT ![id] =
               updateReviewData(UpdateResponseTime(cards[id], responseTime),
                                Val(quality), clock, t2)]
         /\ clock' = t2
         /\ last' = [ Answer("review", 200, TRUE, id, quality, clock, t2)
                         EXCEPT !.user = user, !.responseTime = responseTime,
                                !.doc = cards[id] ]
         /\ history' = [history EXCEPT ![id] = Append(@, Val(quality))]
         /\ UNCHANGED <<start, inflight, others>>

\* The review handler awaits the store twice: findOne, and the save() at the
\* end of updateReviewData.  Other requests are served while it waits, so that
\* under concurrent requests it is two steps: ReviewLoad up to findOne's
\* answer, ReviewSave from there to the write of save().

\* The paths save() writes: those that were assigned a value other than the
\* one they held (Mongoose sends $set of the modified paths, not the whole
\* document).  doc is the document loaded, with the route's averageResponseTime
\* update; new is updateReviewData's result.
PathIf(modified, path) == IF modified THEN {path} ELSE {}
ModifiedPaths(loaded, doc, new, quality) ==
    LET \* easeFactor after `+=`, before the floor: the path is modified when
        \* either assignment changed it
        eased == IF quality >= 3
                 THEN DAdd(doc.reviewData.easeFactor, EaseDelta(quality))
                 ELSE doc.reviewData.easeFactor
    IN  {<<"stats", "timesReviewed">>, <<"reviewData", "reviewCount">>}
        \cup (IF quality >= 3 THEN {<<"stats", "correctAnswers">>}
                              ELSE {<<"stats", "incorrectAnswers">>})
        \cup PathIf(doc.stats.averageResponseTime # loaded.stats.averageResponseTime,
                    <<"stats", "averageResponseTime">>)
        \cup PathIf(new.stats.lastReviewed # doc.stats.lastReviewed,
                    <<"stats", "lastReviewed">>)
        \cup PathIf(new.reviewData.interval # doc.reviewData.interval,
                    <<"reviewData", "interval">>)
        \cup PathIf({doc.reviewData.easeFactor, new.reviewData.easeFactor} # {eased},
                    <<"reviewData", "easeFactor">>)
        \cup PathIf(new.reviewData.nextReview # doc.reviewData.nextReview,
                    <<"reviewData", "nextReview">>)

\* the stored document after $set of the paths with the values of new
SetPaths(stored, new, paths) ==
    [ stored EXCEPT
        !.stats = [f \in DOMAIN stored.stats |->
                      IF <<"stats", f>> \in paths THEN new.stats[f]
                      ELSE stored.stats[f]],
        !.reviewData = [f \in DOMAIN stored.reviewData |->
                      IF <<"reviewData", f>> \in paths THEN new.reviewData[f]
                      ELSE stored.reviewData[f]] ]

\* the review requests that got past findOne in this behaviour
Started == Cardinality(inflight) + Reviewed("c1")

\* POST /card/:id/review up to the answer of findOne
ReviewLoad(id, user, quality, responseTime) ==
    LET answer(status, loaded) ==
            [ Answer("review", status, loaded, id, quality, NoDate, NoDate)
                EXCEPT !.user = user ]
    IN  IF QualityInvalid(quality)
        THEN /\ last' = answer(400, FALSE)
             /\ UNCHANGED <<cards, clock, history, start, inflight, others>>
        ELSE IF ~Castable(id)
        THEN /\ last' = answer(500, TRUE)
             /\ UNCHANGED <<cards, clock, history, start, inflight, others>>
        ELSE IF findOne(id, user) = {}
        THEN /\ last' = answer(404, TRUE)
             /\ UNCHANGED <<cards, clock, history, start, inflight, others>>
        ELSE /\ inflight' = inflight \cup
                    {[ req |-> Started + 1, id |-> id, user |-> user,
                       quality |-> quality, responseTime |-> responseTime,
                       doc |-> cards[id] ]}
             /\ UNCHANGED <<cards, clock, history, start, last, others>>

\* POST /card/:id/review from the answer of findOne on: the running mean,
\* updateReviewData and the write of its save()
ReviewSave(r) ==
    \E t2 \in LaterReads :
    \E doc \in {UpdateResponseTime(r.doc, r.responseTime)} :
    \E new \in {updateReviewData(doc, Val(r.quality), clock, t2)} :
    \E paths \in {ModifiedPaths(r.doc, doc, new, Val(r.quality))} :
            /\ cards' = [cards EXCEPT ![r.id] = SetPaths(@, new, paths)]
            /\ clock' = t2
            /\ last' = [ Answer("review", 200, TRUE, r.id, r.quality, clock, t2)
                            EXCEPT !.user = r.user, !.responseTime = r.responseTime,
                                   !.doc = r.doc ]
            /\ history' = [history EXCEPT ![r.id] = Append(@, Val(r.quality))]
            /\ inflight' = inflight \ {r}
            /\ UNCHANGED <<start, others>>

\* DELETE /card/:id (soft delete)
DeleteCard(id, user) ==
    IF ~Castable(id)
    THEN /\ last' = [ Answer("delete", 500, TRUE, id, Absent, NoDate, NoDate)
                         EXCEPT !.user = user ]
         /\ UNCHANGED <<cards, clock, history, start, inflight, others>>
    ELSE IF findOne(id, user) = {}
    THEN /\ last' = [ Answer("delete", 404, TRUE, id, Absent, NoDate, NoDate)
                         EXCEPT !.user = user ]
         /\ UNCHANGED <<cards, clock, history, start, inflight, others>>
    ELSE /\ cards' = [cards EXCEPT ![id].isActive = FALSE]
         /\ last' = [ Answer("delete", 200, TRUE, id, Absent, NoDate, NoDate)
                         EXCEPT !.user = user ]
         /\ UNCHANGED <<clock, history, start, inflight, others>>

\* mutant of AllowedUpdates: stats let through
AllowedUpdatesWithStats ==
    {"question", "answer", "topic", "difficulty", "tags", "stats"}

\* PATCH /card/:id: the fields a body may name
AllowedUpdates == {"question", "answer", "topic", "difficulty", "tags"}

\* the schema's validators, run by save() (the strings of the model carry no
\* surrounding white space, so that trim leaves them as they are)
Difficulties == {"easy", "medium", "hard"}
Validates(card) ==
    /\ Len(card.question) >= 5
    /\ Len(card.answer) >= 1
    /\ Len(card.topic) >= 1
    /\ card.difficulty \in Difficulties

\* updates.forEach(update => flashcard[update] = req.body[update])
ApplyUpdates(card, body) ==
    [f \in DOMAIN card |-> IF f \in DOMAIN body THEN body[f] ELSE card[f]]

\* the bodies a client sends with PATCH: allowed fields with valid and with
\* invalid values, no field at all, and fields the route does not allow
PatchBodies ==
    << [question |-> "question 2"],
       [answer |-> "answer 2", topic |-> "topic 2", difficulty |-> "hard",
        tags |-> <<"tag">>],
       [difficulty |-> "extreme"],
       [question |-> "q"],
       << >>,
       [reviewData |-> [ interval |-> 100, easeFactor |-> MinEase,
                         nextReview |-> Date(9, 0), reviewCount |-> 7 ]],
       [question |-> "question 3",
        stats |-> [ timesReviewed |-> 9, correctAnswers |-> 9,
                    incorrectAnswers |-> 0, lastReviewed |-> NoDate,
                    averageResponseTime |-> Rat(0, 1) ]],
       [isActive |-> FALSE] >>

\* PATCH /card/:id
PatchCard(id, user, body) ==
    LET answer(status, loaded) ==
            [ Answer("patch", status, loaded, id, Absent, NoDate, NoDate)
                EXCEPT !.user = user, !.fields = DOMAIN body ]
    IN  IF ~(DOMAIN body \subseteq AllowedUpdates)
        THEN /\ last' = answer(400, FALSE)
             /\ UNCHANGED <<cards, clock, history, start, inflight, others>>
        ELSE IF ~Castable(id)
        THEN /\ last' = answer(500, TRUE)
             /\ UNCHANGED <<cards, clock, history, start, inflight, others>>
        ELSE IF findOne(id, user) = {}
        THEN /\ last' = answer(404, TRUE)
             /\ UNCHANGED <<cards, clock, history, start, inflight, others>>
        ELSE IF ~Validates(ApplyUpdates(cards[id], body))
        THEN /\ last' = answer(500, TRUE)
             /\ UNCHANGED <<cards, clock, history, start, inflight, others>>
        ELSE /\ cards' = [cards EXCEPT ![id] = ApplyUpdates(@, body)]
             /\ last' = answer(200, TRUE)
             /\ UNCHANGED <<clock, history, start, inflight, others>>

\* ------------------------------------------------- creating and listing cards

\* .limit(20) of the due list
DueLimit == 20

\* the id of the n-th document inserted into the collection
IdTable == [n \in 1..2 * DueLimit |-> "c" \o ToString(n)]
IdOf(n) == IdTable[n]
Count == Cardinality(DOMAIN cards)

\* Subject.findOne({_id: subjectId, user: user, isActive: true})
SubjectFindOne(subjectId, user) ==
    {x \in DOMAIN subjects : x = subjectId /\ subjects[x].user = user}

\* the collection after the insertion of n new cards of user and subject
Insert(n, user, subject, ai) ==
    cards @@ [c \in {IdOf(i) : i \in Count + 1 .. Count + n} |->
                [NewFlashcard(user, subject, clock) EXCEPT !.aiGenerated = ai]]
Track(n) ==
    history @@ [c \in {IdOf(i) : i \in Count + 1 .. Count + n} |-> <<>>]

\* POST / (generate flashcards for a subject).  reply is the number of
\* flashcards in the AI service's reply, absent when the service fails; the
\* route inserts as many cards as the reply holds.
GenerateFlashcards(user, subjectId, reply) ==
    LET answer(status) ==
            [ Answer("generate", status, subjectId # Absent, "", Absent, NoDate, NoDate)
                EXCEPT !.user = user ]
    IN  IF subjectId = Absent
        THEN /\ last' = answer(400)
             /\ UNCHANGED <<cards, clock, history, start, inflight, others>>
        ELSE IF ~Castable(Val(subjectId))
        THEN /\ last' = answer(500)
             /\ UNCHANGED <<cards, clock, history, start, inflight, others>>
        ELSE IF SubjectFindOne(Val(subjectId), user) = {}
        THEN /\ last' = answer(404)
             /\ UNCHANGED <<cards, clock, history, start, inflight, others>>
        ELSE IF \E c \in DOMAIN cards : /\ cards[c].subject = Val(subjectId)
                                        /\ cards[c].user = user
                                        /\ cards[c].isActive
        THEN /\ last' = answer(400)
             /\ UNCHANGED <<cards, clock, history, start, inflight, others>>
        ELSE IF reply = Absent
        THEN /\ last' = answer(500)
             /\ UNCHANGED <<cards, clock, history, start, inflight, others>>
        ELSE /\ cards' = Insert(Val(reply), user, Val(subjectId), TRUE)
             /\ history' = Track(Val(reply))
             /\ last' = answer(201)
             /\ UNCHANGED <<clock, start, inflight, others>>

\* POST / split at its awaits.  GenerateLoad is the route up to the answer of
\* Flashcard.find (the check for existing cards); a request that passes waits
\* in inflight for the AI service.
GenerateLoad(user, subjectId) ==
    LET answer(status) ==
            [ Answer("generate", status, subjectId # Absent,
                     IF subjectId = Absent THEN "" ELSE Val(subjectId),
                     Absent, NoDate, NoDate)
                EXCEPT !.user = user ]
        free == {n \in 1..(Cardinality(inflight) + 1) :
                     \A r \in inflight : r.req # n}
    IN  IF subjectId = Absent
        THEN /\ last' = answer(400)
             /\ UNCHANGED <<cards, clock, history, start, inflight, others>>
        ELSE IF ~Castable(Val(subjectId))
        THEN /\ last' = answer(500)
             /\ UNCHANGED <<cards, clock, history, start, inflight, others>>
        ELSE IF SubjectFindOne(Val(subjectId), user) = {}
        THEN /\ last' = answer(404)
             /\ UNCHANGED <<cards, clock, history, start, inflight, others>>
        ELSE IF \E c \in DOMAIN cards : /\ cards[c].subject = Val(subjectId)
                                        /\ cards[c].user = user
                                        /\ cards[c].isActive
        THEN /\ last' = answer(400)
             /\ UNCHANGED <<cards, clock, history, start, inflight, others>>
        ELSE /\ inflight' = inflight \cup
                    {[ req |-> CHOOSE n \in free : \A m \in free : n <= m,
                       user |-> user, subject |-> Val(subjectId) ]}
             /\ UNCHANGED <<cards, clock, history, start, last, others>>

\* POST / from the reply of the AI service on: insertMany of the cards built
\* from the reply, or 500 when the service failed
GenerateInsert(r, reply) ==
    LET answer(status) ==
            [ Answer("generate", status, TRUE, r.subject, Absent, NoDate, NoDate)
                EXCEPT !.user = r.user ]
    IN  IF reply = Absent
        THEN /\ last' = answer(500)
             /\ inflight' = inflight \ {r}
             /\ UNCHANGED <<cards, clock, history, start, others>>
        ELSE /\ cards' = Insert(Val(reply), r.user, r.subject, TRUE)
             /\ history' = Track(Val(reply))
             /\ last' = answer(201)
             /\ inflight' = inflight \ {r}
             /\ UNCHANGED <<clock, start, others>>

\* POST /custom (with a body that passes validateFlashcard)
CreateCustom(user, subjectId) ==
    LET answer(status) ==
            [ Answer("custom", status, TRUE, "", Absent, NoDate, NoDate)
                EXCEPT !.user = user ]
    IN  IF ~Castable(subjectId)
        THEN /\ last' = answer(500)
             /\ UNCHANGED <<cards, clock, history, start, inflight, others>>
        ELSE IF SubjectFindOne(subjectId, user) = {}
        THEN /\ last' = answer(404)
             /\ UNCHANGED <<cards, clock, history, start, inflight, others>>
        ELSE /\ cards' = Insert(1, user, subjectId, FALSE)
             /\ history' = Track(1)
             /\ last' = answer(201)
             /\ UNCHANGED <<clock, start, inflight, others>>

\* .sort(): the documents numbered in S as a sequence in ascending order of
\* their keys (dates); documents with equal keys are taken in the order of
\* their insertion
DateLess(a, b) == ~DateLeq(b, a)
KeyLess(key, m, n) == DateLess(key[m], key[n]) \/ (key[m] = key[n] /\ m < n)
RECURSIVE SortBy(_, _)
SortBy(S, key) ==
    IF S = {} THEN <<>>
    ELSE LET least == CHOOSE x \in S : \A y \in S : ~KeyLess(key, y, x)
         IN  <<least>> \o SortBy(S \ {least}, key)

\* mutant of Limit: one document too many
LimitOffByOne(seq, n) == SubSeq(seq, 1, IF Len(seq) < n + 1 THEN Len(seq) ELSE n + 1)

\* .limit(n)
Limit(seq, n) == SubSeq(seq, 1, IF Len(seq) < n THEN Len(seq) ELSE n)

\* Flashcard.find({user, isActive: true, 'reviewData.nextReview': {$lte: now}
\* [, subject]}): the numbers of the documents found
DueQuery(user, subjectId, now) ==
    {n \in 1..Count :
        LET card == cards[IdOf(n)]
        IN  /\ card.user = user
            /\ card.isActive
            /\ DateLeq(card.reviewData.nextReview, now)
            /\ subjectId # Absent => card.subject = Val(subjectId)}

\* .sort({'reviewData.nextReview': 1})
DueKey == [n \in 1..Count |-> cards[IdOf(n)].reviewData.nextReview]

\* .sort({createdAt: -1})
CreatedKey ==
    [n \in 1..Count |-> Date(-cards[IdOf(n)].createdAt.day,
                              -cards[IdOf(n)].createdAt.ms)]

IdsOf(seq) == [i \in DOMAIN seq |-> IdOf(seq[i])]

\* what a GET request leaves in `last`
GetAnswer(handler, status, user, path, limit, list, now) ==
    [ Answer("get", status, TRUE, "", Absent, now, NoDate)
        EXCEPT !.handler = handler, !.user = user, !.path = path,
               !.limit = limit, !.list = list ]

\* GET /due/:subjectId? (subjectId absent when the path gives none)
GetDue(user, path, limit, subjectId) ==
    IF subjectId # Absent /\ ~Castable(Val(subjectId))
    THEN GetAnswer("due", 500, user, path, limit, <<>>, clock)
    ELSE GetAnswer("due", 200, user, path, limit,
                   IdsOf(Limit(SortBy(DueQuery(user, subjectId, clock), DueKey),
                               DueLimit)),
                   clock)

\* GET /:subjectId
GetFlashcards(user, path, limit, subjectId) ==
    IF ~Castable(subjectId)
    THEN GetAnswer("list", 500, user, path, limit, <<>>, NoDate)
    ELSE IF SubjectFindOne(subjectId, user) = {}
    THEN GetAnswer("list", 404, user, path, limit, <<>>, NoDate)
    ELSE GetAnswer("list", 200, user, path, limit,
                   IdsOf(SortBy({n \in 1..Count :
                                     LET card == cards[IdOf(n)]
                                     IN  /\ card.subject = subjectId
                                         /\ card.user = user
                                         /\ card.isActive},
                                 CreatedKey)),
                   NoDate)

\* GET /card/:id
GetCard(user, path, limit, id) ==
    IF ~Castable(id)
    THEN GetAnswer("card", 500, user, path, limit, <<>>, NoDate)
    ELSE IF findOne(id, user) = {}
    THEN GetAnswer("card", 404, user, path, limit, <<>>, NoDate)
    ELSE GetAnswer("card", 200, user, path, limit, <<id>>, NoDate)

\* The router's GET routes in the order of their registration.  A path is the
\* sequence of its segments after the mount point /api/flashcards; a pattern
\* segment is a literal, a parameter (:name) or an optional parameter (:name?).
Literal(name) == [kind |-> "literal", name |-> name]
Param(name) == [kind |-> "param", name |-> name]
Optional(name) == [kind |-> "optional", name |-> name]
GetRoutes ==
    << [handler |-> "list", pattern |-> <<Param("subjectId")>>],
       [handler |-> "card", pattern |-> <<Literal("card"), Param("id")>>],
       [handler |-> "due",  pattern |-> <<Literal("due"), Optional("subjectId")>>] >>

\* the pattern matches the whole path
RECURSIVE Matches(_, _)
Matches(pattern, path) ==
    IF pattern = <<>> THEN path = <<>>
    ELSE IF Head(pattern).kind = "optional"
    THEN \/ Matches(Tail(pattern), path)
         \/ path # <<>> /\ Matches(Tail(pattern), Tail(path))
    ELSE /\ path # <<>>
         /\ Head(pattern).kind = "literal" => Head(pattern).name = Head(path)
         /\ Matches(Tail(pattern), Tail(path))

\* the handler of the first route registered whose pattern matches
Dispatch(path) ==
    LET matching == {i \in DOMAIN GetRoutes : Matches(GetRoutes[i].pattern, path)}
    IN  IF matching = {} THEN "none"
        ELSE GetRoutes[CHOOSE i \in matching : \A j \in matching : i <= j].handler

\* a GET request of user for path, with ?limit= in its query
Get(user, path, limit) ==
    /\ last' =
          CASE Dispatch(path) = "list" -> GetFlashcards(user, path, limit, path[1])
            [] Dispatch(path) = "card" -> GetCard(user, path, limit, path[2])
            [] Dispatch(path) = "due"  ->
                  GetDue(user, path, limit,
                         IF Len(path) >= 2 THEN Some(path[2]) ELSE Absent)
            [] OTHER -> GetAnswer("none", 404, user, path, limit, <<>>, NoDate)
    /\ UNCHANGED <<cards, clock, history, start, inflight, others>>

\* ---------------------------------------------------- dashboard: analytics

RECURSIVE SumSuccessRates(_)
SumSuccessRates(S) ==
    IF S = {} THEN 0
    ELSE LET c == CHOOSE c \in S : TRUE
         IN  successRate(cards[c]) + SumSuccessRates(S \ {c})

\* Math.round(n / d) of integers n >= 0 and d > 0
MathRoundDiv(n, d) == (2 * n + d) \div (2 * d)

\* flashcardStats.averageSuccessRate of GET /analytics
averageSuccessRate(user) ==
    LET flashcards == {c \in DOMAIN cards : cards[c].user = user /\ cards[c].isActive}
    IN  IF flashcards = {} THEN 0
        ELSE MathRoundDiv(SumSuccessRates(flashcards), Cardinality(flashcards))

GetAnalytics(user) ==
    /\ last' = [ Answer("analytics", 200, TRUE, "", Absent, NoDate, NoDate)
                    EXCEPT !.user = user, !.average = averageSuccessRate(user) ]
    /\ UNCHANGED <<cards, clock, history, start, inflight, others>>

\* time passes
TickMs ==
    /\ clock.ms < MaxMs
    /\ clock' = Date(clock.day, clock.ms + 1)
    /\ UNCHANGED <<cards, history, start, last, inflight, others>>

\* ------------------------------------------------------------ due cards

\* the virtual isDue: new Date() >= this.reviewData.nextReview
isDue(card, now) == DateLeq(card.reviewData.nextReview, now)

\* Flashcard.countDocuments({user, isActive: true,
\* 'reviewData.nextReview': {$lte: new Date()}}) of the dashboard
dueFlashcards(user, now) ==
    Cardinality({c \in DOMAIN cards : /\ cards[c].user = user
                                      /\ cards[c].isActive
                                      /\ DateLeq(cards[c].reviewData.nextReview, now)})

\* GET /dashboard: the due count of its stats
GetDashboard(user) ==
    /\ last' = [ Answer("dashboard", 200, TRUE, "", Absent, clock, NoDate)
                    EXCEPT !.user = user,
                           !.dueFlashcards = dueFlashcards(user, clock) ]
    /\ UNCHANGED <<cards, clock, history, start, inflight, others>>

\* a day or so passes: the clock moves to some time of the next day
TickDay ==
    /\ clock.day < MaxDay
    /\ \E m \in 0..MaxMs : clock' = Date(clock.day + 1, m)
    /\ UNCHANGED <<cards, history, start, last, inflight, others>>

\* ------------------------------------------------- users and study plans

\* a User document (studyStats and its defaults), created at `now`
NewUser(now) ==
    [ studyStats |-> [ totalStudyTime |-> 0, streak |-> 0, completedTasks |-> 0,
                       lastActive |-> now ] ]

PlanIds == {"p1"}
TaskIds == {"t1", "t2"}

\* studyPlanSchema.pre('save'): progress is recomputed from the tasks
SavePlan(plan) ==
    LET total == Cardinality(DOMAIN plan.dailyTasks)
        done  == Cardinality({t \in DOMAIN plan.dailyTasks : plan.dailyTasks[t].completed})
    IN  IF total = 0 THEN plan
        ELSE [ plan EXCEPT !.progress =
                 [ totalTasks |-> total, completedTasks |-> done,
                   completionPercentage |-> (200 * done + total) \div (2 * total) ] ]

\* a StudyPlan document of user with its daily tasks, none completed
NewStudyPlan(user) ==
    SavePlan([ user |-> user, isActive |-> TRUE,
               dailyTasks |-> [t \in TaskIds |-> [completed |-> FALSE, completedAt |-> NoDate]],
               progress |-> [totalTasks |-> 0, completedTasks |-> 0,
                             completionPercentage |-> 0] ])

\* StudyPlan.findOne({_id: studyPlanId, user: user, isActive: true})
StudyPlanFindOne(studyPlanId, user) ==
    {p \in DOMAIN studyPlans : /\ p = studyPlanId
                               /\ studyPlans[p].user = user
                               /\ studyPlans[p].isActive}

\* the streak logic of mark-topic: daysDiff = Math.floor((today - lastActive)
\* / (1000 * 60 * 60 * 24))
StreakAfter(streak, today, lastActive) ==
    LET daysDiff == DateDiff(today, lastActive) \div (1000 * 60 * 60 * 24)
    IN  IF daysDiff = 1 THEN streak + 1
        ELSE IF daysDiff > 1 THEN 1
        ELSE streak

\* what a mark-topic request leaves in `last`
MarkAnswer(status, user, topicId, studyPlanId, t1, today) ==
    [ Answer("mark-topic", status, status = 200,
             IF topicId = Absent THEN "" ELSE Val(topicId), Absent, t1, today)
        EXCEPT !.user = user, !.plan = studyPlanId,
               !.usersBefore = users, !.plansBefore = studyPlans ]

\* PATCH /mark-topic
MarkTopic(user, topicId, studyPlanId) ==
    IF topicId = Absent \/ studyPlanId = Absent
    THEN /\ last' = MarkAnswer(400, user, topicId, studyPlanId, NoDate, NoDate)
         /\ UNCHANGED <<cards, clock, history, start, inflight, others>>
    ELSE IF ~Castable(Val(studyPlanId))
    THEN /\ last' = MarkAnswer(500, user, topicId, studyPlanId, NoDate, NoDate)
         /\ UNCHANGED <<cards, clock, history, start, inflight, others>>
    ELSE IF StudyPlanFindOne(Val(studyPlanId), user) = {}
    THEN /\ last' = MarkAnswer(404, user, topicId, studyPlanId, NoDate, NoDate)
         /\ UNCHANGED <<cards, clock, history, start, inflight, others>>
    ELSE IF Val(topicId) \notin DOMAIN studyPlans[Val(studyPlanId)].dailyTasks
    THEN /\ last' = MarkAnswer(404, user, topicId, studyPlanId, NoDate, NoDate)
         /\ UNCHANGED <<cards, clock, history, start, inflight, others>>
    ELSE \E t2 \in LaterReads : \E today \in ReadsFrom(t2) :
            /\ studyPlans' =
                  [ studyPlans EXCEPT ![Val(studyPlanId)] =
                      SavePlan([ @ EXCEPT !.dailyTasks[Val(topicId)] =
                                   [completed |-> TRUE, completedAt |-> clock] ]) ]
            \* lastActive is assigned t2 and then read back for the streak
            /\ users' =
                  [ users EXCEPT ![user].studyStats =
                      [ @ EXCEPT !.completedTasks = @ + 1,
                                 !.lastActive = t2,
                                 !.streak = StreakAfter(@, today, t2) ] ]
            /\ clock' = today
            /\ last' = MarkAnswer(200, user, topicId, studyPlanId, clock, today)
            /\ UNCHANGED <<cards, history, start, inflight, quizzes>>

\* ------------------------------------------------------------------ quizzes

\* A value of a JSON body: a number, or the string of a number's digits.
Num(n) == [type |-> "number", v |-> n]
Str(n) == [type |-> "string", v |-> n]
\* a === b
StrictEq(a, b) == a.type = b.type /\ a.v = b.v
\* the number a value is converted to, by >= and by the schema's Number cast
ToNumber(a) == a.v

\* the correctAnswer of the questions of the quiz of the model, in order
QuizQuestions == <<[correctAnswer |-> 1], [correctAnswer |-> 0]>>

\* Math.round(sum / n) and Math.round((c / n) * 100) for the small n of the
\* model, whose quotients are exact or far from a half
RoundedQuotient(sum, n) == (2 * sum + n) \div (2 * n)

RECURSIVE SumPercentages(_)
SumPercentages(attempts) ==
    IF attempts = <<>> THEN 0
    ELSE Head(attempts).percentage + SumPercentages(Tail(attempts))

\* quizSchema.pre('save'): the statistics are recomputed from the attempts
SaveQuiz(quiz) ==
    IF quiz.attempts = <<>> THEN quiz
    ELSE [ quiz EXCEPT !.stats =
             [ totalAttempts |-> Len(quiz.attempts),
               bestScore |-> CHOOSE m \in {quiz.attempts[i].percentage : i \in DOMAIN quiz.attempts} :
                                 \A i \in DOMAIN quiz.attempts : quiz.attempts[i].percentage <= m,
               averageScore |-> RoundedQuotient(SumPercentages(quiz.attempts), Len(quiz.attempts)),
               lastAttempt |-> quiz.attempts[Len(quiz.attempts)].endTime ] ]

\* a Quiz document of user with the questions of the model and no attempt
NewQuiz(user) ==
    [ user |-> user, isActive |-> TRUE, questions |-> QuizQuestions,
      settings |-> [allowRetake |-> TRUE],
      attempts |-> <<>>,
      stats |-> [totalAttempts |-> 0, bestScore |-> 0, averageScore |-> 0,
                 lastAttempt |-> NoDate] ]

\* Quiz.findOne({_id: id, user: user, isActive: true})
QuizFindOne(id, user) ==
    {q \in DOMAIN quizzes : q = id /\ quizzes[q].user = user /\ quizzes[q].isActive}

\* quiz.attempts.id(attemptId): the n-th attempt of a quiz has the id n
AttemptFound(quiz, attemptId) ==
    attemptId # Absent /\ Val(attemptId) \in DOMAIN quiz.attempts

\* what a quiz request leaves in `last`
QuizAnswer(op, status, id, user, attemptId) ==
    [ Answer(op, status, status = 200, "", Absent, clock, NoDate)
        EXCEPT !.user = user, !.quiz = id, !.attempt = attemptId,
               !.quizzesBefore = quizzes ]

Rejected(op, status, id, user, attemptId) ==
    /\ last' = QuizAnswer(op, status, id, user, attemptId)
    /\ UNCHANGED <<cards, clock, history, start, inflight, others>>

\* POST /quiz/:id/start
StartQuiz(id, user) ==
    IF ~Castable(id) THEN Rejected("start", 500, id, user, Absent)
    ELSE IF QuizFindOne(id, user) = {} THEN Rejected("start", 404, id, user, Absent)
    ELSE IF Len(quizzes[id].attempts) > 0 /\ ~quizzes[id].settings.allowRetake
    THEN Rejected("start", 400, id, user, Absent)
    ELSE LET attempt == [ attemptNumber |-> Len(quizzes[id].attempts) + 1,
                          startTime |-> clock, endTime |-> NoDate,
                          answers |-> <<>>, score |-> 0, percentage |-> 0,
                          totalQuestions |-> Len(quizzes[id].questions),
                          correctAnswers |-> 0, completed |-> FALSE ]
         IN  /\ quizzes' = [ quizzes EXCEPT ![id] =
                               SaveQuiz([@ EXCEPT !.attempts = Append(@, attempt)]) ]
             /\ last' = QuizAnswer("start", 200, id, user, Absent)
             /\ UNCHANGED <<cards, clock, history, start, inflight, users, studyPlans>>

\* mutant of AttemptClosed: a completed attempt is still open
AttemptNeverClosed(attempt) == FALSE

\* if (attempt.completed): the attempt takes no more answers
AttemptClosed(attempt) == attempt.completed

\* attempt.answers.findIndex(a => a.questionIndex === questionIndex): the
\* positions that hold the question, the stored index being a number
ExistingAnswers(answers, questionIndex) ==
    {i \in DOMAIN answers : StrictEq(Num(answers[i].questionIndex), questionIndex)}

\* Add or update answer
PutAnswer(answers, questionIndex, answerData) ==
    LET existing == ExistingAnswers(answers, questionIndex)
    IN  IF existing # {}
        THEN [answers EXCEPT ![CHOOSE i \in existing : \A j \in existing : i <= j] = answerData]
        ELSE Append(answers, answerData)

\* POST /quiz/:id/answer
AnswerQuiz(id, user, attemptId, questionIndex, selectedAnswer) ==
    LET Reject(status) == Rejected("answer", status, id, user, attemptId)
    IN  IF selectedAnswer = Absent \/ questionIndex = Absent THEN Reject(400)
        ELSE IF ~Castable(id) THEN Reject(500)
        ELSE IF QuizFindOne(id, user) = {} THEN Reject(404)
        ELSE IF ~AttemptFound(quizzes[id], attemptId) THEN Reject(404)
        ELSE IF AttemptClosed(quizzes[id].attempts[Val(attemptId)]) THEN Reject(400)
        ELSE IF ToNumber(Val(questionIndex)) >= Len(quizzes[id].questions) THEN Reject(400)
        \* quiz.questions[questionIndex] is undefined: question.correctAnswer throws
        ELSE IF ToNumber(Val(questionIndex)) < 0 THEN Reject(500)
        ELSE LET question   == quizzes[id].questions[ToNumber(Val(questionIndex)) + 1]
                 answerData == [ questionIndex  |-> ToNumber(Val(questionIndex)),
                                 selectedAnswer |-> ToNumber(Val(selectedAnswer)),
                                 isCorrect |-> StrictEq(Val(selectedAnswer),
                                                        Num(question.correctAnswer)),
                                 timeSpent |-> 0 ]
             IN  /\ quizzes' =
                       [ quizzes EXCEPT ![id] =
                           SaveQuiz([ @ EXCEPT !.attempts[Val(attemptId)].answers =
                                        PutAnswer(@, Val(questionIndex), answerData) ]) ]
                 /\ last' = [ QuizAnswer("answer", 200, id, user, attemptId)
                                EXCEPT !.questionIndex = questionIndex,
                                       !.selectedAnswer = selectedAnswer ]
                 /\ UNCHANGED <<cards, clock, history, start, inflight, users, studyPlans>>

\* attempt.answers.filter(a => a.isCorrect).length
CorrectCount(answers) == Cardinality({i \in DOMAIN answers : answers[i].isCorrect})

\* POST /quiz/:id/complete
CompleteQuiz(id, user, attemptId) ==
    IF ~Castable(id) THEN Rejected("complete", 500, id, user, attemptId)
    ELSE IF QuizFindOne(id, user) = {} THEN Rejected("complete", 404, id, user, attemptId)
    ELSE IF ~AttemptFound(quizzes[id], attemptId)
    THEN Rejected("complete", 404, id, user, attemptId)
    ELSE IF AttemptClosed(quizzes[id].attempts[Val(attemptId)])
    THEN Rejected("complete", 400, id, user, attemptId)
    ELSE LET attempt == quizzes[id].attempts[Val(attemptId)]
             correct == CorrectCount(attempt.answers)
         IN
         /\ quizzes' =
               [ quizzes EXCEPT ![id] =
                   SaveQuiz([ @ EXCEPT !.attempts[Val(attemptId)] =
                       [ attempt EXCEPT
                           !.endTime = clock,
                           !.completed = TRUE,
                           !.correctAnswers = correct,
                           !.percentage = RoundedQuotient(100 * correct,
                                                          attempt.totalQuestions),
                           !.score = correct ] ]) ]
         /\ last' = QuizAnswer("complete", 200, id, user, attemptId)
         /\ UNCHANGED <<cards, clock, history, start, inflight, users, studyPlans>>

\* the users, the study plan and the quiz the behaviours start with
InitOthers ==
    /\ users = [u \in Users |-> NewUser(Date(0, 0))]
    /\ studyPlans = [p \in PlanIds |-> NewStudyPlan("u1")]
    /\ quizzes = [q \in {"q1"} |-> NewQuiz("u1")]

\* ------------------------------------------------------------ specifications

\* The ease factor reaches its floor only with the ninth review of a card
\* (2.5 - 9 * 0.14 < 1.3).  Behaviours therefore start either from a new card
\* or from a card that updateReviewData has already taken through one of
\* these review sequences.
StartHistories == { <<>>, <<3, 3, 3, 3, 3, 3, 3, 3>> }

\* the card after the accepted reviews of h, all at time `now`
RECURSIVE Replay(_, _, _)
Replay(card, h, now) ==
    IF h = <<>> THEN card
    ELSE Replay(updateReviewData(card, Head(h), now, now), Tail(h), now)

InitFrom(h) ==
    /\ InitOthers
    /\ clock = Date(0, 0)
    /\ cards = [c \in CardIds |->
                   Replay(NewFlashcard(Owner, "s1", Date(0, 0)), h, Date(0, 0))]
    /\ history = [c \in CardIds |-> h]
    /\ start = h
    /\ last = Answer("none", 0, FALSE, "c0", Absent, NoDate, NoDate)
    /\ inflight = {}

\* The scheduler: the owner reviews the card with the qualities the route
\* accepts, while time passes.
Init == \E h \in StartHistories : InitFrom(h)

OwnerReview ==
    \E id \in CardIds, q \in Qualities, responseTime \in ResponseTimeInputs :
        /\ Reviewed(id) < MaxReviews
        /\ Review(id, Owner, Some(q), responseTime)

Next ==
    \/ OwnerReview
    \/ TickMs

Spec == Init /\ [][Next]_vars

\* The request layer: any user sends any review or delete request for any id
\* (the clock moves with the reviews only).
InitStore == InitFrom(<<>>)

AnyReview ==
    \E id \in RequestIds, user \in Users, quality \in QualityInputs,
       responseTime \in ResponseTimeInputs :
        /\ (~QualityInvalid(quality) /\ findOne(id, user) # {})
              => Reviewed(id) < MaxStoreReviews
        /\ Review(id, user, quality, responseTime)

AnyDelete == \E id \in RequestIds, user \in Users : DeleteCard(id, user)

NextStore ==
    \/ AnyReview
    \/ AnyDelete

SpecStore == InitStore /\ [][NextStore]_vars

\* The editor: the owner reviews the card, and any user sends any PATCH or
\* delete request for any id.
EditQualities == {2, 5}

EditReview ==
    \E id \in CardIds, q \in EditQualities, responseTime \in {Absent, Some(4)} :
        /\ Reviewed(id) < MaxEditReviews
        /\ Review(id, Owner, Some(q), responseTime)

AnyPatch ==
    \E id \in RequestIds, user \in Users, i \in DOMAIN PatchBodies :
        PatchCard(id, user, PatchBodies[i])

NextEdit ==
    \/ EditReview
    \/ AnyPatch
    \/ AnyDelete

SpecEdit == InitStore /\ [][NextEdit]_vars

\* Concurrent requests: the owner's review requests overlap.
ConcQualities == {2, 4, 5}

ConcLoad ==
    \E id \in CardIds, q \in ConcQualities, responseTime \in {Absent, Some(4)} :
        /\ Started < MaxConcReviews
        /\ ReviewLoad(id, Owner, Some(q), responseTime)

ConcSave == \E r \in inflight : ReviewSave(r)

NextConc ==
    \/ ConcLoad
    \/ ConcSave
    \/ TickMs

SpecConc == InitStore /\ [][NextConc]_vars

\* The deck: users create cards, by generation and one by one, review and
\* delete some of them, and ask for lists and for the analytics.  The AI
\* service is asked for 10 to 15 flashcards, but the route takes whatever
\* number its reply holds.
InitDeck ==
    /\ InitOthers
    /\ clock = Date(0, 0)
    /\ cards = [c \in {} |-> 0]
    /\ history = [c \in {} |-> <<>>]
    /\ start = <<>>
    /\ last = Answer("none", 0, FALSE, "c0", Absent, NoDate, NoDate)
    /\ inflight = {}

ReplySizes == {2, DueLimit + 1}
DeckRequestIds == {"c1"}
DeckQualities == {2, 5}
GetPaths == { <<"due">>, <<"due", "s1">>, <<"s1">>, <<"card", "c1">> }
LimitInputs == {Absent, Some(1)}

DeckGenerate ==
    \E reply \in {Absent} \cup {Some(n) : n \in ReplySizes} :
        /\ ~\E c \in DOMAIN cards : cards[c].aiGenerated
        /\ GenerateFlashcards(Owner, Some("s1"), reply)

DeckCustom ==
    \E user \in Users, subjectId \in DOMAIN subjects :
        /\ Cardinality({c \in DOMAIN cards : ~cards[c].aiGenerated}) < MaxCustom
        /\ CreateCustom(user, subjectId)

DeckReview ==
    \E id \in DeckRequestIds, q \in DeckQualities :
        /\ Cardinality({c \in DOMAIN cards : history[c] # <<>>}) < MaxDeckReviews
        /\ id \in DOMAIN cards => history[id] = <<>>
        /\ Review(id, Owner, Some(q), Absent)

DeckDelete == \E id \in DeckRequestIds : DeleteCard(id, Owner)

DeckGet ==
    \E user \in Users, path \in GetPaths, limit \in LimitInputs :
        Get(user, path, limit)

DeckAnalytics == \E user \in Users : GetAnalytics(user)

NextDeck ==
    \/ DeckGenerate
    \/ DeckCustom
    \/ DeckReview
    \/ DeckDelete
    \/ DeckGet
    \/ DeckAnalytics
    \/ TickMs

SpecDeck == InitDeck /\ [][NextDeck]_vars

\* Due cards over the days: the owner reviews the card, asks for the due list
\* of its subject and for the dashboard, while milliseconds and days pass.
DueQualities == {2, 5}

DueReview ==
    \E id \in CardIds, q \in DueQualities :
        /\ Reviewed(id) < MaxDueReviews
        /\ Review(id, Owner, Some(q), Absent)

DueGet == Get(Owner, <<"due", "s1">>, Absent)

DueDashboard == GetDashboard(Owner)

NextDue ==
    \/ DueReview
    \/ DueGet
    \/ DueDashboard
    \/ TickMs
    \/ TickDay

SpecDue == InitStore /\ [][NextDue]_vars

\* The study plan: the users mark tasks of the plan, while milliseconds and
\* days pass.
TopicInputs == {Absent, Some("t1"), Some("t2"), Some("t0")}
PlanInputs == {Absent, Some("p1"), Some("p0"), Some("bad")}

PlanMark ==
    \E user \in Users, topicId \in TopicInputs, studyPlanId \in PlanInputs :
        /\ users[user].studyStats.completedTasks < MaxMarks
        /\ MarkTopic(user, topicId, studyPlanId)

NextPlan ==
    \/ PlanMark
    \/ TickMs
    \/ TickDay

SpecPlan == InitStore /\ [][NextPlan]_vars

\* The quiz: the users start attempts, answer and complete them, while
\* milliseconds pass.
QuizIds == {"q1"}
AttemptInputs == {Absent, Some(1), Some(2)}
QuestionIndexInputs == {Absent, Some(Num(-1)), Some(Num(0)), Some(Num(1)),
                        Some(Num(2)), Some(Str(0))}
SelectedAnswerInputs == {Absent, Some(Num(0)), Some(Num(1))}

QuizStart ==
    \E id \in QuizIds, user \in Users :
        /\ id \in DOMAIN quizzes => Len(quizzes[id].attempts) < MaxAttempts
        /\ StartQuiz(id, user)

QuizAnswerQuestion ==
    \E id \in QuizIds, user \in Users, attemptId \in AttemptInputs,
       questionIndex \in QuestionIndexInputs, selectedAnswer \in SelectedAnswerInputs :
        /\ (id \in DOMAIN quizzes /\ AttemptFound(quizzes[id], attemptId))
              => Len(quizzes[id].attempts[Val(attemptId)].answers) < MaxAnswers
        /\ AnswerQuiz(id, user, attemptId, questionIndex, selectedAnswer)

QuizComplete ==
    \E id \in QuizIds, user \in Users, attemptId \in AttemptInputs :
        CompleteQuiz(id, user, attemptId)

NextQuiz ==
    \/ QuizStart
    \/ QuizAnswerQuestion
    \/ QuizComplete
    \/ TickMs

SpecQuiz == InitStore /\ [][NextQuiz]_vars

\* Generation requests that overlap: requests pass the check for existing
\* cards and wait for the AI service, whose replies arrive in any order.
GenSubjectInputs == {Absent, Some("s1"), Some("s2"), Some("bad")}
GenReplies == {Absent, Some(1), Some(2)}

GenLoad ==
    \E user \in Users, subjectId \in GenSubjectInputs :
        /\ Cardinality(inflight) + Count < MaxGenerations
        /\ GenerateLoad(user, subjectId)

GenInsert == \E r \in inflight, reply \in GenReplies : GenerateInsert(r, reply)

NextGen ==
    \/ GenLoad
    \/ GenInsert

SpecGen == InitDeck /\ [][NextGen]_vars

TypeOK ==
    /\ clock.day = 0 /\ clock.ms \in 0..MaxMs
    /\ \A c \in CardIds : Reviewed(c) \in 0..MaxReviews

\* ------------------------------------------------------------------ claims

\* the last request was a review that was accepted
Accepted == last.op = "review" /\ last.status = 200
\* the reviewed card as stored before and after that review, and its quality
Before == last.before[last.id]
After == cards[last.id]
LastQuality == Val(last.quality)

\* C1: after any sequence of accepted reviews of a card, correctAnswers +
\* incorrectAnswers = timesReviewed, and timesReviewed is the number of
\* accepted reviews of the card.
C1_CountersAddUp ==
    \A c \in CardIds :
        /\ cards[c].stats.correctAnswers + cards[c].stats.incorrectAnswers
              = cards[c].stats.timesReviewed
        /\ cards[c].stats.timesReviewed = Len(history[c])
C1_Witness ==
    \E c \in CardIds :
        /\ cards[c].stats.correctAnswers >= 1
        /\ cards[c].stats.incorrectAnswers >= 2
        /\ Reviewed(c) = 3

\* the ease factor the quality branch of the last accepted review computed,
\* before the floor was applied
Unclamped ==
    QualityBranch(Before, LastQuality,
                  IncReviewCount(Before.reviewData.reviewCount)).easeFactor

\* C2: the stored easeFactor is never below 1.3, and a review whose computed
\* ease factor is below 1.3 stores exactly 1.3.
C2_EaseFloor ==
    /\ \A c \in CardIds : ~DLess(cards[c].reviewData.easeFactor, MinEase)
    /\ (Accepted /\ DLess(Unclamped, MinEase))
          => After.reviewData.easeFactor = MinEase
C2_Witness ==
    /\ Accepted
    /\ LastQuality = 3
    /\ DLess(Unclamped, MinEase)
    /\ After.reviewData.easeFactor = MinEase

\* C3: the stored interval is an integer and at least 1.
C3_IntervalPositive ==
    \A c \in CardIds :
        cards[c].reviewData.interval \in Nat /\ cards[c].reviewData.interval >= 1
C3_Witness ==
    /\ Accepted
    /\ LastQuality < 3
    /\ Before.reviewData.interval > 6
    /\ After.reviewData.interval = 1

\* C4: an accepted review of quality 0, 1 or 2 leaves reviewCount = 0 and
\* interval = 1, whatever the card was before.
C4_FailureResets ==
    (Accepted /\ LastQuality < 3)
        => After.reviewData.reviewCount = 0 /\ After.reviewData.interval = 1
C4_Witness ==
    /\ Accepted
    /\ LastQuality = 0
    /\ Before.reviewData.reviewCount >= 2
    /\ Before.reviewData.interval >= 6
    /\ After.reviewData.reviewCount = 0

\* C5: an accepted review of quality 3, 4 or 5 of a card whose reviewCount is 0
\* leaves reviewCount = 1 and interval = 1.
C5_FirstSuccess ==
    (Accepted /\ LastQuality >= 3 /\ Before.reviewData.reviewCount = 0)
        => After.reviewData.reviewCount = 1 /\ After.reviewData.interval = 1
C5_Witness ==
    /\ Accepted
    /\ LastQuality >= 3
    /\ Before.reviewData.reviewCount = 0
    /\ Before.stats.incorrectAnswers >= 1
    /\ Before.reviewData.easeFactor # DefaultEase
    /\ After.reviewData.interval = 1

\* C6: an accepted review of quality 3, 4 or 5 of a card whose reviewCount is 1
\* leaves reviewCount = 2 and interval = 6, whatever the ease factor.
C6_SecondSuccess ==
    (Accepted /\ LastQuality >= 3 /\ Before.reviewData.reviewCount = 1)
        => After.reviewData.reviewCount = 2 /\ After.reviewData.interval = 6
C6_Witness ==
    /\ Accepted
    /\ LastQuality >= 3
    /\ Before.reviewData.reviewCount = 1
    /\ Before.reviewData.easeFactor # DefaultEase
    /\ After.reviewData.interval = 6

\* C7: an accepted review of quality 3, 4 or 5 of a card whose reviewCount is
\* at least 2 stores Math.round(interval * easeFactor) of the interval and the
\* ease factor stored before the review, an integer nearest to their product.
C7_LaterSuccess ==
    (Accepted /\ LastQuality >= 3 /\ Before.reviewData.reviewCount >= 2)
        => /\ After.reviewData.interval =
                MathRoundMul(Before.reviewData.interval, Before.reviewData.easeFactor)
           /\ 100 * After.reviewData.interval - 50
                <= Before.reviewData.interval * Before.reviewData.easeFactor.h
           /\ Before.reviewData.interval * Before.reviewData.easeFactor.h
                <= 100 * After.reviewData.interval + 50
C7_Witness ==
    /\ Accepted
    /\ LastQuality >= 3
    /\ Before.reviewData.reviewCount >= 2
    /\ After.reviewData.easeFactor # Before.reviewData.easeFactor
    /\ After.reviewData.interval
          # MathRoundMul(Before.reviewData.interval, After.reviewData.easeFactor)

\* C8: a review request whose quality is absent, below 0 or above 5 is answered
\* 400 before the card is looked up, and no stored card changes.
C8_InvalidQualityRejected ==
    (last.op = "review" /\ (last.quality = Absent \/ Val(last.quality) \notin 0..5))
        => last.status = 400 /\ ~last.loaded /\ cards = last.before
C8_Witness ==
    /\ last.op = "review"
    /\ last.quality = Some(6)
    /\ last.status = 400
    /\ last.id \in CardIds
    /\ cards[last.id].isActive
    /\ cards[last.id].stats.timesReviewed = 1

\* C9: after an accepted review performed at time now (the clock when the
\* handler started), nextReview = now + interval days and lastReviewed = now.
C9_NextReviewFromNow ==
    Accepted
        => /\ After.stats.lastReviewed = last.t1
           /\ After.reviewData.nextReview = AddDays(last.t1, After.reviewData.interval)

\* the length of the longest suffix of h whose qualities are all >= 3
RECURSIVE StreakLen(_)
StreakLen(h) ==
    IF h = <<>> \/ h[Len(h)] < 3 THEN 0
    ELSE 1 + StreakLen(SubSeq(h, 1, Len(h) - 1))

\* C10: reviewCount is the length of the longest suffix of the card's accepted
\* reviews in which every quality is at least 3.
C10_ReviewCountIsStreak ==
    \A c \in CardIds : cards[c].reviewData.reviewCount = StreakLen(history[c])
C10_Witness ==
    \E c \in CardIds :
        /\ start = <<>>
        /\ Len(history[c]) = 3
        /\ history[c][1] < 3
        /\ cards[c].reviewData.reviewCount = 2

\* the card of Spec, and a behaviour that started from a new card and has
\* seen exactly the accepted reviews h
TheCard == "c1"
FreshAfter(h) == start = <<>> /\ history[TheCard] = h

\* C11 (scenario A): one review of quality 5 of a new card leaves
\* reviewCount = 1, interval = 1, easeFactor = 2.6, correctAnswers = 1 and
\* timesReviewed = 1.
C11_ScenarioA ==
    FreshAfter(<<5>>)
        => /\ cards[TheCard].reviewData.reviewCount = 1
           /\ cards[TheCard].reviewData.interval = 1
           /\ cards[TheCard].reviewData.easeFactor = Lit(260)
           /\ cards[TheCard].stats.correctAnswers = 1
           /\ cards[TheCard].stats.timesReviewed = 1
C11_Witness ==
    /\ FreshAfter(<<5>>)
    /\ Accepted
    /\ Before = NewFlashcard(Owner, "s1", Date(0, 0))
    /\ cards[TheCard].reviewData.easeFactor = Lit(260)

\* C12 (scenario B) as claimed: a review of quality 4 after scenario A leaves
\* reviewCount = 2, interval = 6 and easeFactor about 2.68.
C12_ScenarioB_Claimed ==
    FreshAfter(<<5, 4>>)
        => /\ cards[TheCard].reviewData.reviewCount = 2
           /\ cards[TheCard].reviewData.interval = 6
           /\ cards[TheCard].reviewData.easeFactor.h = 268
\* C12 amended: a review of quality 4 after scenario A leaves reviewCount = 2,
\* interval = 6 and easeFactor = 2.6, the value it had (quality 4 adds 0).
C12_ScenarioB ==
    FreshAfter(<<5, 4>>)
        => /\ cards[TheCard].reviewData.reviewCount = 2
           /\ cards[TheCard].reviewData.interval = 6
           /\ cards[TheCard].reviewData.easeFactor = Lit(260)
C12_Witness ==
    /\ FreshAfter(<<5, 4>>)
    /\ Accepted
    /\ LastQuality = 4
    /\ Before.reviewData.easeFactor = Lit(260)
    /\ cards[TheCard].reviewData.interval = 6

\* C13: successRate is 0 on a card never reviewed and otherwise the integer in
\* 0..100 nearest to 100 * correctAnswers / timesReviewed; it is 100 after one
\* successful review of a new card and 67 after two successes and a failure.
C13_SuccessRate ==
    /\ \A c \in CardIds :
          LET st == cards[c].stats
              sr == successRate(cards[c])
          IN  /\ sr \in 0..100
              /\ st.timesReviewed = 0 => sr = 0
              /\ st.timesReviewed > 0 =>
                    /\ 2 * (100 * st.correctAnswers - sr * st.timesReviewed)
                          <= st.timesReviewed
                    /\ 2 * (sr * st.timesReviewed - 100 * st.correctAnswers)
                          <= st.timesReviewed
    /\ FreshAfter(<<>>) => successRate(cards[TheCard]) = 0
    /\ FreshAfter(<<5>>) => successRate(cards[TheCard]) = 100
    /\ FreshAfter(<<5, 4, 2>>) => successRate(cards[TheCard]) = 67
C13_Witness ==
    /\ FreshAfter(<<5, 4, 2>>)
    /\ cards[TheCard].stats.correctAnswers = 2
    /\ cards[TheCard].stats.timesReviewed = 3
    /\ successRate(cards[TheCard]) = 67

\* C14: an accepted review that provides responseTime (0 included) stores
\* averageResponseTime = (oldAvg * oldTimesReviewed + responseTime)
\* / (oldTimesReviewed + 1); one that does not provide it leaves
\* averageResponseTime unchanged.
C14_RunningMean ==
    Accepted =>
        LET avg == Before.stats.averageResponseTime
            n   == Before.stats.timesReviewed
            new == After.stats.averageResponseTime
        IN  IF last.responseTime = Absent
            THEN new = avg
            ELSE new.num * (avg.den * (n + 1))
                    = (avg.num * n + Val(last.responseTime) * avg.den) * new.den

\* the card the last request named, as stored before the request, was not
\* there for the caller: no card has that id, or it is another user's, or it
\* is soft-deleted
NotThere ==
    \/ last.id \notin DOMAIN last.before
    \/ last.before[last.id].user # last.user
    \/ ~last.before[last.id].isActive

\* C18: a review request (of valid quality) for a card id that does not exist,
\* that belongs to a different user, or whose card is soft-deleted answers
\* NotFound (404) and changes no stored card.
C18_ReviewNotFound ==
    (last.op = "review" /\ last.quality # Absent /\ Val(last.quality) \in 0..5
        /\ NotThere)
        => last.status = 404 /\ cards = last.before

\* C19: PATCH (of question, answer, topic, difficulty, tags) and soft delete
\* leave every field of reviewData and stats of every card unchanged; a PATCH
\* that names any other field is answered 400 and changes no card.
C19_EditsKeepSchedule ==
    /\ last.op \in {"patch", "delete"} =>
          \A c \in DOMAIN cards :
              /\ cards[c].reviewData = last.before[c].reviewData
              /\ cards[c].stats = last.before[c].stats
    /\ (last.op = "patch"
          /\ ~(last.fields \subseteq {"question", "answer", "topic", "difficulty", "tags"}))
          => last.status = 400 /\ cards = last.before
C19_Witness ==
    /\ last.op = "patch"
    /\ last.status = 200
    /\ last.fields = {"answer", "topic", "difficulty", "tags"}
    /\ cards[last.id].difficulty = "hard"
    /\ last.before[last.id].difficulty = "medium"
    /\ cards[last.id].stats.timesReviewed = 2
    /\ cards[last.id].reviewData.reviewCount = 1

\* C20: two review requests for the same card never interleave: when a review
\* saves, the stored card is still the document it loaded, and so the stored
\* timesReviewed of a card is the number of its accepted reviews.
C20_NoInterleaving ==
    /\ Accepted => Before = last.doc
    /\ \A c \in CardIds : cards[c].stats.timesReviewed = Len(history[c])

\* C15: the averageSuccessRate reported for a user is the rounded mean of
\* successRate over the user's active cards with timesReviewed > 0, and 0 when
\* none of them has been reviewed: cards never reviewed do not lower it.
C15_AverageOverReviewed ==
    last.op = "analytics" =>
        LET reviewed == {c \in DOMAIN cards : /\ cards[c].user = last.user
                                              /\ cards[c].isActive
                                              /\ cards[c].stats.timesReviewed > 0}
        IN  last.average =
                IF reviewed = {} THEN 0
                ELSE MathRoundDiv(SumSuccessRates(reviewed), Cardinality(reviewed))

\* the last request was answered with a due list
DueListed == last.op = "get" /\ last.handler = "due" /\ last.status = 200
\* the due list holds only active cards of the caller that were due when the
\* request was handled, in ascending order of nextReview
DueListSound ==
    /\ \A i \in DOMAIN last.list :
          LET card == cards[last.list[i]]
          IN  /\ card.user = last.user
              /\ card.isActive
              /\ DateLeq(card.reviewData.nextReview, last.t1)
    /\ \A i, j \in DOMAIN last.list :
          i < j => /\ last.list[i] # last.list[j]
                   /\ DateLeq(cards[last.list[i]].reviewData.nextReview,
                              cards[last.list[j]].reviewData.nextReview)
\* the caller's active due cards (of the subject the path names)
DueCards ==
    {c \in DOMAIN cards :
        /\ cards[c].user = last.user
        /\ cards[c].isActive
        /\ DateLeq(cards[c].reviewData.nextReview, last.t1)
        /\ Len(last.path) >= 2 => cards[c].subject = last.path[2]}

\* C16 as claimed: the due list holds only active cards of the caller with
\* nextReview <= now, in ascending order of nextReview, and at most as many as
\* the limit the caller gave (at most 20 when the caller gave none).
C16_DueList_Claimed ==
    DueListed =>
        /\ DueListSound
        /\ Len(last.list) <= (IF last.limit = Absent THEN 20 ELSE Val(last.limit))
\* C16 amended: the due list holds only active cards of the caller with
\* nextReview <= now, in ascending order of nextReview, and at most 20 of them
\* whatever limit the caller gave; it holds all of them when they are at most 20.
C16_DueList ==
    DueListed =>
        /\ DueListSound
        /\ Len(last.list) <= 20
        /\ Cardinality(DueCards) <= 20 => Len(last.list) = Cardinality(DueCards)
C16_Witness ==
    /\ DueListed
    /\ last.limit = Some(1)
    /\ Len(last.list) = 20
    /\ Cardinality(DueCards) > 20
    /\ \E c \in DOMAIN cards : /\ cards[c].user = last.user
                                /\ cards[c].isActive
                                /\ ~DateLeq(cards[c].reviewData.nextReview, last.t1)

\* C17: a GET of the path /due, with no subject after it, is dispatched to the
\* due-list handler and answered with the caller's due cards of all subjects;
\* no route registered earlier takes 'due' for a subject id.
C17_DueWithoutSubject ==
    (last.op = "get" /\ last.path = <<"due">>)
        => /\ last.handler = "due"
           /\ last.status = 200
           /\ Len(last.list) <= Cardinality(DueCards)
           /\ \A c \in DueCards :
                  Cardinality(DueCards) <= 20 => \E i \in DOMAIN last.list : last.list[i] = c

\* ------------------------------------------------- the ease factor's update

\* the double x is the decimal h hundredths up to the rounding of a few
\* double operations (less than 2^-40)
Near(x, h) == x.h = h /\ x.r < 100 * Pow2(20) /\ -x.r < 100 * Pow2(20)

\* C21: an accepted review with quality 3, 4 or 5 computes, before the floor,
\* the old ease factor changed by -0.14, 0.00 and +0.10, and stores the
\* computed value unless it is below 1.3, when it stores 1.3.
C21_EaseChange ==
    (Accepted /\ LastQuality >= 3)
        => \A new \in {Unclamped} :
           LET old    == Before.reviewData.easeFactor
               change == IF LastQuality = 5 THEN 10
                         ELSE IF LastQuality = 4 THEN 0 ELSE -14
           IN  /\ Near(Dbl(new.h - old.h, new.r - old.r), change)
               /\ LastQuality = 4 => new = old
               /\ After.reviewData.easeFactor =
                      IF DLess(new, MinEase) THEN MinEase ELSE new
C21_Witness ==
    /\ Accepted
    /\ LastQuality = 3
    /\ Before.reviewData.easeFactor = DefaultEase
    /\ Unclamped.h = 236
    /\ After.reviewData.easeFactor = Unclamped

\* C22: an accepted review with quality 0, 1 or 2 leaves the ease factor as it
\* was (it was at least 1.3, so the floor changes nothing), leaves
\* correctAnswers as it was and adds exactly 1 to incorrectAnswers.
C22_FailureKeepsEase ==
    (Accepted /\ LastQuality <= 2)
        => /\ After.reviewData.easeFactor = Before.reviewData.easeFactor
           /\ ~DLess(Before.reviewData.easeFactor, MinEase)
           /\ After.stats.correctAnswers = Before.stats.correctAnswers
           /\ After.stats.incorrectAnswers = Before.stats.incorrectAnswers + 1
C22_Witness ==
    /\ Accepted
    /\ FreshAfter(<<5, 4, 2>>)
    /\ After.reviewData.easeFactor = Lit(260)
    /\ After.reviewData.reviewCount = 0
    /\ After.reviewData.interval = 1
    /\ After.stats.correctAnswers = 2
    /\ After.stats.incorrectAnswers = 1
    /\ After.stats.timesReviewed = 3

\* ------------------------------------------------ a review and the clock

\* the times at which the same review may be performed instead
OtherNows == { Date(d, m) : d \in 0..1, m \in 0..MaxMs }
\* the clock values the second reading of such a run may return
ReadsAfter(now) == { now, Date(now.day, now.ms + 1) }

\* the card a second run of the last accepted review stores, when it is
\* applied to the same prior card with the same quality and response time but
\* starts at `now` and reads the clock as t2 for nextReview
SecondRun(now, t2) ==
    updateReviewData(UpdateResponseTime(Before, last.responseTime),
                     LastQuality, now, t2)

\* the two runs agree on everything but the timestamps
SameButTimestamps(a, b) ==
    /\ a.reviewData.interval = b.reviewData.interval
    /\ a.reviewData.easeFactor = b.reviewData.easeFactor
    /\ a.reviewData.reviewCount = b.reviewData.reviewCount
    /\ a.stats.timesReviewed = b.stats.timesReviewed
    /\ a.stats.correctAnswers = b.stats.correctAnswers
    /\ a.stats.incorrectAnswers = b.stats.incorrectAnswers

\* C23: two reviews of equal prior cards with equal quality and responseTime,
\* performed at different times now1 and now2, store equal interval,
\* easeFactor, reviewCount and counters, and their nextReview values differ by
\* exactly now2 - now1.
C23_ClockIndependent ==
    Accepted
        => \A now \in OtherNows : \A t2 \in ReadsAfter(now) :
               /\ SameButTimestamps(SecondRun(now, t2), After)
               /\ DateDiff(SecondRun(now, t2).reviewData.nextReview,
                           After.reviewData.nextReview)
                      = DateDiff(now, last.t1)

\* the part of C23 that does not involve nextReview
C23_SameButTimestamps ==
    Accepted
        => \A now \in OtherNows : \A t2 \in ReadsAfter(now) :
               SameButTimestamps(SecondRun(now, t2), After)
\* with one clock reading per run, C23 holds in full
C23_SingleReading ==
    (Accepted /\ last.t2 = last.t1)
        => \A now \in OtherNows :
               DateDiff(SecondRun(now, now).reviewData.nextReview,
                        After.reviewData.nextReview)
                   = DateDiff(now, last.t1)

\* ------------------------------------------------------ overlapping reviews

\* the last save was the second of two reviews of a new card that both loaded
\* the card before either saved
BothLoadedFirst ==
    /\ Accepted
    /\ start = <<>>
    /\ Len(history[last.id]) = 2
    /\ last.doc.stats.timesReviewed = 0

\* the card the last review alone produces from the document it loaded
AloneFromLoaded ==
    updateReviewData(UpdateResponseTime(last.doc, last.responseTime),
                     LastQuality, last.t1, last.t2)

\* C24: when two reviews of a card both load it before either saves, the card
\* stored after both is what one of them alone produces from the loaded card
\* (the first one's result is the card stored before the second save), and so
\* correctAnswers + incorrectAnswers = timesReviewed in the stored card.
C24_LastWriteWins ==
    BothLoadedFirst
        => /\ After \in {Before, AloneFromLoaded}
           /\ After.stats.correctAnswers + After.stats.incorrectAnswers
                  = After.stats.timesReviewed

\* ------------------------------------------------------- due over the days

\* the time from which the claim has card c due: its creation when it was
\* never reviewed, else the time of its last review plus its interval in days
DueFrom(c) ==
    IF history[c] = <<>> THEN cards[c].createdAt
    ELSE AddDays(cards[c].stats.lastReviewed, cards[c].reviewData.interval)

\* C25: a new card has nextReview = its creation time; a card last reviewed at
\* t with resulting interval d is not due, and is in neither the due list nor
\* the due count, at any time before t + d days, and is due, listed and
\* counted at every time from t + d days on until it is reviewed again.
C25_DueFromInterval ==
    \A c \in CardIds :
        /\ history[c] = <<>> => cards[c].reviewData.nextReview = cards[c].createdAt
        /\ isDue(cards[c], clock) <=> DateLeq(DueFrom(c), clock)
        /\ (DueListed /\ last.user = Owner)
              => ((\E i \in DOMAIN last.list : last.list[i] = c)
                     <=> DateLeq(DueFrom(c), last.t1))
        /\ (last.op = "dashboard" /\ last.user = Owner)
              => (last.dueFlashcards = 1 <=> DateLeq(DueFrom(c), last.t1))

\* the same statement for the cards whose last review read the clock once
C25_SingleReading ==
    \A c \in CardIds :
        cards[c].reviewData.nextReview = DueFrom(c)
            => /\ isDue(cards[c], clock) <=> DateLeq(DueFrom(c), clock)
               /\ (DueListed /\ last.user = Owner)
                     => ((\E i \in DOMAIN last.list : last.list[i] = c)
                            <=> DateLeq(DueFrom(c), last.t1))
               /\ (last.op = "dashboard" /\ last.user = Owner)
                     => (last.dueFlashcards = 1 <=> DateLeq(DueFrom(c), last.t1))
\* no card is due, listed or counted before the claim's time
C25_NotDueBefore ==
    \A c \in CardIds :
        /\ isDue(cards[c], clock) => DateLeq(DueFrom(c), clock)
        /\ (DueListed /\ last.user = Owner /\ \E i \in DOMAIN last.list : last.list[i] = c)
              => DateLeq(DueFrom(c), last.t1)
        /\ (last.op = "dashboard" /\ last.user = Owner /\ last.dueFlashcards = 1)
              => DateLeq(DueFrom(c), last.t1)

\* ------------------------------------------------------------- mark-topic

\* the last request was a mark-topic that completed a task
Marked == last.op = "mark-topic" /\ last.status = 200
\* the caller's studyStats before and after that request
StatsBefore == last.usersBefore[last.user].studyStats
StatsAfter == users[last.user].studyStats
\* the whole days between the caller's previous activity and the request
DaysSinceActive ==
    DateDiff(last.t2, StatsBefore.lastActive) \div (1000 * 60 * 60 * 24)

\* C26: a mark-topic request made one day after the user's previous activity
\* (studyStats.lastActive before the request) adds 1 to the streak, one made
\* more than one day after it sets the streak to 1, and one made the same day
\* leaves the streak.
C26_Streak ==
    Marked
        => /\ DaysSinceActive = 1 => StatsAfter.streak = StatsBefore.streak + 1
           /\ DaysSinceActive > 1 => StatsAfter.streak = 1
           /\ DaysSinceActive = 0 => StatsAfter.streak = StatsBefore.streak

\* what the code does instead: no mark-topic request changes the streak
C26_StreakNeverChanges ==
    Marked => StatsAfter.streak = StatsBefore.streak

\* the tasks of the plans of user u that are completed
CompletedTasksOf(u) ==
    { <<p, t>> \in PlanIds \X TaskIds :
          studyPlans[p].user = u /\ studyPlans[p].dailyTasks[t].completed }

\* C27: studyStats.completedTasks of a user is the number of the user's tasks
\* whose completed flag is true, and marking a task that is already completed
\* changes neither the counter nor the task's completedAt.
C27_CompletedTasks ==
    /\ \A u \in Users :
           users[u].studyStats.completedTasks = Cardinality(CompletedTasksOf(u))
    /\ (Marked /\ last.plansBefore[Val(last.plan)].dailyTasks[last.id].completed)
          => /\ StatsAfter.completedTasks = StatsBefore.completedTasks
             /\ studyPlans[Val(last.plan)].dailyTasks[last.id].completedAt
                    = last.plansBefore[Val(last.plan)].dailyTasks[last.id].completedAt

\* the plan's own counter, recomputed at every save, does count the tasks
C27_PlanProgress ==
    \A p \in PlanIds :
        studyPlans[p].progress.completedTasks
            = Cardinality({t \in TaskIds : studyPlans[p].dailyTasks[t].completed})

\* ---------------------------------------------------------- quiz attempts

\* the attempts of quiz q as stored before the last request
AttemptsBefore(q) == last.quizzesBefore[q].attempts

\* C28: an attempt that is completed is never modified again: its answers,
\* correctAnswers, score, percentage and endTime stay as they are, and an
\* answer or complete request for it is rejected.
C28_CompletedFrozen ==
    last.op \in {"start", "answer", "complete"}
        => \A q \in DOMAIN quizzes : \A i \in DOMAIN AttemptsBefore(q) :
               AttemptsBefore(q)[i].completed
                   => /\ quizzes[q].attempts[i] = AttemptsBefore(q)[i]
                      /\ (last.op \in {"answer", "complete"} /\ last.quiz = q
                             /\ last.attempt = Some(i))
                            => last.status # 200
C28_Witness ==
    /\ last.op = "complete"
    /\ last.status = 400
    /\ last.user = "u1"
    /\ last.attempt = Some(1)
    /\ AttemptsBefore("q1")[1].completed
    /\ quizzes["q1"].attempts[1].answers # <<>>
    /\ quizzes["q1"].attempts[1].percentage = 50
    /\ quizzes["q1"].attempts[1].endTime # clock

\* no two entries of the answers are for the same question
OnePerQuestion(answers) ==
    \A i, j \in DOMAIN answers :
        i # j => answers[i].questionIndex # answers[j].questionIndex

\* C29: the answers of an attempt hold at most one entry per questionIndex and
\* only indices of existing questions, so a completed attempt has
\* correctAnswers <= totalQuestions and percentage =
\* round(correctAnswers / totalQuestions * 100), an integer in 0..100.
C29_AnswersPerQuestion ==
    \A q \in DOMAIN quizzes : \A i \in DOMAIN quizzes[q].attempts :
        LET attempt == quizzes[q].attempts[i]
        IN  /\ OnePerQuestion(attempt.answers)
            /\ \A k \in DOMAIN attempt.answers :
                   attempt.answers[k].questionIndex \in 0..(Len(quizzes[q].questions) - 1)
            /\ attempt.completed
                  => /\ attempt.correctAnswers <= attempt.totalQuestions
                     /\ attempt.percentage \in 0..100
                     /\ 2 * attempt.totalQuestions * attempt.percentage
                            <= 200 * attempt.correctAnswers + attempt.totalQuestions
                     /\ 200 * attempt.correctAnswers - attempt.totalQuestions
                            < 2 * attempt.totalQuestions * attempt.percentage

\* the parts of C29 that hold: only existing questions are answered, and an
\* answer whose questionIndex is a number never adds a second entry
C29_ExistingQuestions ==
    \A q \in DOMAIN quizzes : \A i \in DOMAIN quizzes[q].attempts :
        \A k \in DOMAIN quizzes[q].attempts[i].answers :
            quizzes[q].attempts[i].answers[k].questionIndex
                \in 0..(Len(quizzes[q].questions) - 1)
C29_NumbersReplace ==
    (/\ last.op = "answer" /\ last.status = 200
     /\ Val(last.questionIndex).type = "number"
     /\ OnePerQuestion(AttemptsBefore(last.quiz)[Val(last.attempt)].answers))
        => OnePerQuestion(quizzes[last.quiz].attempts[Val(last.attempt)].answers)
\* a completed attempt with more correct answers than questions
C29_OverFull ==
    \E q \in DOMAIN quizzes : \E i \in DOMAIN quizzes[q].attempts :
        /\ quizzes[q].attempts[i].completed
        /\ quizzes[q].attempts[i].correctAnswers > quizzes[q].attempts[i].totalQuestions
        /\ quizzes[q].attempts[i].percentage > 100

\* ------------------------------------------------- overlapping generations

\* the active cards of user and subject in the collection coll
ActiveCards(coll, user, subject) ==
    {c \in DOMAIN coll : /\ coll[c].user = user
                         /\ coll[c].subject = subject
                         /\ coll[c].isActive}

\* C30: a generation request inserts cards only when the subject has no active
\* card of the user: whatever requests came before or overlap with it, a
\* request inserts nothing while active cards of the subject exist.
C30_GenerateOnce ==
    (last.op = "generate" /\ last.status = 201)
        => ActiveCards(last.before, last.user, last.id) = {}

\* the same statement for generation requests handled one at a time
C30_OneAtATime ==
    (last.op = "generate" /\ last.status = 201)
        => ActiveCards(last.before, last.user, "s1") = {}
\* a request that arrives when the subject has active cards is rejected
C30_LateRequestRejected ==
    (last.op = "generate" /\ last.loaded /\ last.status = 400)
        => /\ ActiveCards(cards, last.user, last.id) # {}
           /\ cards = last.before

====
